---------------------------- MODULE Spec2Model ----------------------------
(***************************************************************************)
(* PSSE contingency test (Main.py): the top-level loop over selector and   *)
(* main(cont_workbook, psse_sav_case, target_workbook), one action per     *)
(* statement group.  The PSSE engine, the contingency workbook reader and  *)
(* the results writer live in optimisation.psse / optimisation.            *)
(* file_handling; what main() needs of them is modelled by the operators   *)
(* of the section "Collaborators".                                         *)
(***************************************************************************)
EXTENDS Integers, Sequences, FiniteSets, TLC

(* ------------------------------ bounds -------------------------------- *)

\* Longest selector list explored.
MaxSel == 2

\* Most rows of contingency names in the contingency workbook.
MaxCont == 2

(* ------------------------- module-level data --------------------------- *)

\* Main.py 33-40: the SAV cases, by file name.
pth_EirGrid_SAV ==
  << "snv_high wind_30snv_mec_33_v1(BC).sav",
     "snv_low wind_30snv_mec_33_v1(BC).sav",
     "WP_high wind_30w_mec_33_v1(BC).sav",
     "snv_high wind_30snv_mec_33_v1(CP966).sav",
     "snv_low wind_30snv_mec_33_v1(CP966).sav",
     "WP_high wind_30w_mec_33_v1(CP966).sav" >>

\* Main.py 42
pth_Contingencies == "Contingencies.xlsx"

\* Main.py 45-52: the results workbooks, by file name.
pth_results ==
  << "Results_SVHW(BC).xlsx",
     "Results_SVLW(BC).xlsx",
     "Results_WPHW(BC).xlsx",
     "Results_SVHW(CP966).xlsx",
     "Results_SVLW(CP966).xlsx",
     "Results_WPHW(CP966).xlsx" >>

\* Python list indexing list[i]: position i from the front, or from the
\* back when i is negative.
PyIndexOk(list, i) == (-Len(list) <= i) /\ (i < Len(list))
PyIndex(list, i) == IF i < 0 THEN list[Len(list) + i + 1] ELSE list[i + 1]

\* The values an operator may give selector (Main.py 24, 54): the integer
\* -1 that the comment of lines 22-23 documents, or a list of positions.
\* A record keeps the two shapes apart: type "int" reads field int, type
\* "list" reads field list.
SelectorInt(n) == [type |-> "int", int |-> n, list |-> << >>]
SelectorList(l) == [type |-> "list", int |-> 0, list |-> l]

\* The positions used in selector lists: one counted from the front of the
\* lists and one, negative, counted from the back.
SelectorPositions == {-1, 1}

SeqsUpTo(S, n) == UNION {[1..m -> S] : m \in 0..n}

SelectorValues ==
  {SelectorInt(-1)} \cup {SelectorList(l) : l \in SeqsUpTo(SelectorPositions, MaxSel)}

(* ---------------------------- Collaborators ---------------------------- *)

\* constants.Contingency.bc: the row label of the base case.
bc == "BASE_CASE"

\* constants.Contingency.convergent and the message of a failed solve.
convergent_message == "Convergent"
non_convergent_message == "Non-convergent"

\* constants.EirGridThresholds
cont_step_change_limit == "cont_step_change_limit"
reactor_step_change_limit == "reactor_step_change_limit"

\* constants.Excel: the sheet names of the results workbook.
ExcelSheet ==
  [voltage_steady |-> "V Steady", voltage_step |-> "V Step", busbars |-> "Busbars",
   circuit_status |-> "Circuit Status", circuit_loading |-> "Circuit Loading",
   tx2_status |-> "TX2 Status", tx2_loading |-> "TX2 Loading", tx3 |-> "TX3",
   tx3_wind_status |-> "TX3 Wind Status", tx3_wind_loading |-> "TX3 Wind Loading",
   fixed_shunts |-> "Fixed Shunts", switched_shunts |-> "Switched Shunts",
   machine_data |-> "Machine Data"]

\* The rows the contingency workbook can hold: the elements each named
\* contingency switches out.
ContingencyRows ==
  { [name |-> "CCT_A", circuits |-> {"L1"}, switched_shunts |-> {}],
    [name |-> "CCT_B", circuits |-> {"L1", "L2"}, switched_shunts |-> {}],
    [name |-> "SHUNT_X", circuits |-> {}, switched_shunts |-> {"SH1"}] }

ContingencyNames == {r.name : r \in ContingencyRows}

\* ImportContingencies.contingency_names: the names in workbook order.
Workbooks == SeqsUpTo(ContingencyNames, MaxCont)

\* ImportContingencies.group_contingencies_by_name
group_contingencies_by_name(cont_name) ==
  CHOOSE r \in ContingencyRows : r.name = cont_name

\* psse.Contingency(...): the object built for one name.  Before its test
\* it carries a convergent outcome.
Contingency(row) ==
  [name |-> row.name,
   elements |-> row.circuits \cup row.switched_shunts,
   voltage_control_contingency |-> (row.circuits = {} /\ row.switched_shunts # {}),
   convergent |-> TRUE,
   convergence_message |-> convergent_message]

\* run_load_flow(): whether the solve converged and the islanded busbars.
LoadFlowOutcomes == [success : BOOLEAN, islanded : {{}, {"BUS_9"}}]

\* test_contingency(): the outcome of the solve with the contingency
\* applied is recorded on the object, it is never raised.
test_contingency(contingency, conv) ==
  [contingency EXCEPT
     !.convergent = conv,
     !.convergence_message =
        IF conv THEN convergent_message ELSE non_convergent_message]

\* load_data_case(): the case file is read afresh, every element is back
\* in service.
load_data_case == {}

\* check_compliance(cont_names, voltage_step_limit): one row per name,
\* checked against the limit given.
check_compliance(cont_names, voltage_step_limit) ==
  [n \in 1..Len(cont_names) |->
     [name |-> cont_names[n], limit |-> voltage_step_limit]]

(* ------------------------------- state --------------------------------- *)

VARIABLES
  selector,       \* Main.py 54: the configured selection
  workbook,       \* the contingency names held by Contingencies.xlsx
  pc,             \* the statement the script is at
  pos,            \* how many items of selector the for loop has taken
  pth_sav,        \* Main.py 215
  pth_res,        \* Main.py 216
  log,            \* what local_logger has written
  calls,          \* the arguments of every call of main()
  raised,         \* the exception in flight or last caught
  psse_sav_case,  \* main(): parameter
  target_workbook,\* main(): parameter
  load_flow_success,
  islanded_busbars,
  imported,       \* main() has read the contingency workbook
  contingency_circuits_details, \* the OrderedDict, as a sequence of objects
  circuit_switching,
  shunt_switching,
  contingency_convergence,      \* the DataFrame: row label -> cells
  k,              \* position of the loop of line 128
  contingency_compliance,
  exported,       \* the calls of ExportResults made by this run of main()
  returned,       \* the value main() returned
  out_of_service, \* PSSE: the elements switched out in the loaded case
  left_out,       \* what the last contingency test left switched out
  events          \* this run's calls on the contingencies and the case

vars ==
  << selector, workbook, pc, pos, pth_sav, pth_res, log, calls, raised,
     psse_sav_case, target_workbook, load_flow_success, islanded_busbars,
     imported, contingency_circuits_details, circuit_switching,
     shunt_switching, contingency_convergence, k, contingency_compliance,
     exported, returned, out_of_service, left_out, events >>

topVars == << selector, workbook, pos, pth_sav, pth_res, log, calls >>

mainArgs == << psse_sav_case, target_workbook >>

baseVars == << load_flow_success, islanded_busbars >>

loopVars ==
  << imported, contingency_circuits_details, circuit_switching,
     shunt_switching, contingency_convergence, k >>

outVars == << contingency_compliance, exported, returned >>

psseVars == << out_of_service, left_out, events >>

\* A DataFrame cell: empty (NaN) or holding one value.
NaN == << >>
Cell(v) == << v >>

NoException == [type |-> "None", msg |-> ""]
ValueError(m) == [type |-> "ValueError", msg |-> m]
TypeError(m) == [type |-> "TypeError", msg |-> m]

LogEntry(level, msg, sav, res) ==
  [level |-> level, msg |-> msg, sav |-> sav, res |-> res]

EmptyFrame == [n \in {} |-> [message |-> NaN, convergence |-> NaN]]

NoCompliance == [convergence |-> EmptyFrame, step_change |-> << >>, names |-> << >>]

\* frame.loc[label, ...] = ...: the row is written, added when absent.
SetRow(frame, label, row) ==
  [n \in DOMAIN frame \cup {label} |-> IF n = label THEN row ELSE frame[n]]

Init ==
  /\ selector \in SelectorValues
  /\ workbook \in Workbooks
  /\ pc = "for"
  /\ pos = 0
  /\ pth_sav = ""
  /\ pth_res = ""
  /\ log = << LogEntry("info", "Study Started", "", "") >>
  /\ calls = << >>
  /\ raised = NoException
  /\ psse_sav_case = ""
  /\ target_workbook = ""
  /\ load_flow_success = FALSE
  /\ islanded_busbars = {}
  /\ imported = FALSE
  /\ contingency_circuits_details = << >>
  /\ circuit_switching = << >>
  /\ shunt_switching = << >>
  /\ contingency_convergence = EmptyFrame
  /\ k = 1
  /\ contingency_compliance = NoCompliance
  /\ exported = << >>
  /\ returned = ""
  /\ out_of_service = {}
  /\ left_out = {}
  /\ events = << >>

(* --------------------------- top-level loop ---------------------------- *)

\* Main.py 213: iterating an integer raises TypeError, outside any try.
ForTypeError ==
  /\ pc = "for"
  /\ selector.type = "int"
  /\ raised' = TypeError("'int' object is not iterable")
  /\ pc' = "crashed"
  /\ UNCHANGED << topVars, mainArgs, baseVars, loopVars, outVars, psseVars >>

\* Main.py 213-219: the next item of selector, its two paths, the call.
ForBody ==
  /\ pc = "for"
  /\ selector.type = "list"
  /\ pos < Len(selector.list)
  /\ LET i == selector.list[pos + 1] IN
       /\ PyIndexOk(pth_EirGrid_SAV, i) /\ PyIndexOk(pth_results, i)
       /\ pth_sav' = PyIndex(pth_EirGrid_SAV, i)
       /\ pth_res' = PyIndex(pth_results, i)
  /\ pos' = pos + 1
  /\ log' = Append(log, LogEntry("info", "Processing SAV case", pth_sav', ""))
  /\ calls' = Append(calls, [cont_workbook |-> pth_Contingencies,
                             psse_sav_case |-> pth_sav',
                             target_workbook |-> pth_res'])
  /\ pc' = "load"
  /\ UNCHANGED << selector, workbook, raised, mainArgs, baseVars, loopVars,
                  outVars, psseVars >>

\* Main.py 213, 226: the list is exhausted.
StudyCompleted ==
  /\ pc = "for"
  /\ selector.type = "list"
  /\ pos = Len(selector.list)
  /\ log' = Append(log, LogEntry("info", "Study completed", "", ""))
  /\ pc' = "done"
  /\ UNCHANGED << selector, workbook, pos, pth_sav, pth_res, calls, raised,
                  mainArgs, baseVars, loopVars, outVars, psseVars >>

\* Main.py 219-222: main() returned.
LogCompleted ==
  /\ pc = "returned"
  /\ log' = Append(log, LogEntry("info", "SAV case completed", pth_sav, pth_res))
  /\ pc' = "for"
  /\ UNCHANGED << selector, workbook, pos, pth_sav, pth_res, calls, raised,
                  mainArgs, baseVars, loopVars, outVars, psseVars >>

\* ExceptValueError without the handler: the error leaves the script.
ExceptValueError_Propagate ==
  /\ pc = "raise"
  /\ raised.type = "ValueError"
  /\ pc' = "crashed"
  /\ UNCHANGED << topVars, raised, mainArgs, baseVars, loopVars, outVars, psseVars >>

\* Main.py 223-224: except ValueError.
ExceptValueError ==
  /\ pc = "raise"
  /\ raised.type = "ValueError"
  /\ log' = Append(log, LogEntry("error",
                "Contingency analysis for the SAV case could not be completed",
                pth_sav, ""))
  /\ pc' = "for"
  /\ UNCHANGED << selector, workbook, pos, pth_sav, pth_res, calls, raised,
                  mainArgs, baseVars, loopVars, outVars, psseVars >>

(* ------------------------------- main() -------------------------------- *)

\* Main.py 59-73: main() is entered with the arguments of line 219, its
\* locals are fresh, the case is loaded.
LoadCase ==
  /\ pc = "load"
  /\ psse_sav_case' = calls[Len(calls)].psse_sav_case
  /\ target_workbook' = calls[Len(calls)].target_workbook
  /\ raised' = NoException
  /\ load_flow_success' = FALSE
  /\ islanded_busbars' = {}
  /\ imported' = FALSE
  /\ contingency_circuits_details' = << >>
  /\ circuit_switching' = << >>
  /\ shunt_switching' = << >>
  /\ contingency_convergence' = EmptyFrame
  /\ k' = 1
  /\ contingency_compliance' = NoCompliance
  /\ exported' = << >>
  /\ returned' = ""
  /\ out_of_service' = load_data_case
  /\ left_out' = {}
  /\ events' = << >>
  /\ pc' = "run_load_flow"
  /\ UNCHANGED topVars

\* Main.py 76
RunLoadFlow ==
  /\ pc = "run_load_flow"
  /\ \E o \in LoadFlowOutcomes :
       /\ load_flow_success' = o.success
       /\ islanded_busbars' = o.islanded
  /\ pc' = "base_check"
  /\ UNCHANGED << topVars, raised, mainArgs, loopVars, outVars, psseVars >>

\* BaseCaseCheck with the islanding branch alone: a non-convergent base
\* case with no islanded busbar falls through the check.
BaseCaseCheck_IslandedOnly(success, islanded) ==
  IF islanded # {}
    THEN ValueError("Check PSSE SAV Case - Islanded busbars")
    ELSE NoException

\* BaseCaseCheck with the two inner tests in the other order.
BaseCaseCheck_NonConvergentFirst(success, islanded) ==
  IF ~success \/ islanded # {}
    THEN IF ~success
           THEN ValueError("Check PSSE SAV Case - Non-Convergent")
           ELSE ValueError("Check PSSE SAV Case - Islanded busbars")
    ELSE NoException

\* Main.py 77-92: the error the check raises, or none.
BaseCaseCheck(success, islanded) ==
  IF ~success \/ islanded # {}
    THEN IF islanded # {}
           THEN ValueError("Check PSSE SAV Case - Islanded busbars")
           ELSE IF ~success
                  THEN ValueError("Check PSSE SAV Case - Non-Convergent")
                  ELSE NoException
    ELSE NoException

\* BaseCheck placed after the import of the contingency workbook.
BaseCheck_AfterImport ==
  /\ pc = "base_check"
  /\ raised' = BaseCaseCheck(load_flow_success, islanded_busbars)
  /\ imported' = TRUE
  /\ pc' = IF raised' = NoException THEN "import" ELSE "raise"
  /\ UNCHANGED << topVars, mainArgs, baseVars, contingency_circuits_details,
                  circuit_switching, shunt_switching, contingency_convergence,
                  k, outVars, psseVars >>

\* Main.py 77-92
BaseCheck ==
  /\ pc = "base_check"
  /\ raised' = BaseCaseCheck(load_flow_success, islanded_busbars)
  /\ pc' = IF raised' = NoException THEN "import" ELSE "raise"
  /\ UNCHANGED << topVars, mainArgs, baseVars, loopVars, outVars, psseVars >>

\* DictInsertAll into a plain list: a repeated name gets a second entry.
RECURSIVE DictInsertAll_List(_, _)
DictInsertAll_List(dict, names) ==
  IF names = << >> THEN dict
  ELSE DictInsertAll_List(
         Append(dict, Contingency(group_contingencies_by_name(Head(names)))),
         Tail(names))

\* Insertion into an OrderedDict: a key keeps the place of its first
\* insertion and takes the value of its last.
RECURSIVE DictInsertAll(_, _)
DictInsertAll(dict, names) ==
  IF names = << >> THEN dict
  ELSE LET c == Contingency(group_contingencies_by_name(Head(names)))
           at == {j \in 1..Len(dict) : dict[j].name = c.name}
       IN DictInsertAll(
            IF at = {} THEN Append(dict, c)
            ELSE [dict EXCEPT ![CHOOSE j \in at : TRUE] = c],
            Tail(names))

\* Main.py 95-117: the data objects, the workbook, one object per name.
ImportContingencies ==
  /\ pc = "import"
  /\ imported' = TRUE
  /\ contingency_circuits_details' = DictInsertAll(<< >>, workbook)
  /\ pc' = "frame"
  /\ UNCHANGED << topVars, raised, mainArgs, baseVars, circuit_switching,
                  shunt_switching, contingency_convergence, k, outVars, psseVars >>

\* Main.py 119-127: the two lists, the empty frame, the base-case row.
InitConvergence ==
  /\ pc = "frame"
  /\ circuit_switching' = << >>
  /\ shunt_switching' = << >>
  /\ contingency_convergence' =
       SetRow([n \in {c.name : c \in
                       {contingency_circuits_details[j] :
                          j \in 1..Len(contingency_circuits_details)}} |->
                 [message |-> NaN, convergence |-> NaN]],
              bc,
              [message |-> Cell(convergent_message), convergence |-> Cell(TRUE)])
  /\ k' = 1
  /\ pc' = "loop"
  /\ UNCHANGED << topVars, raised, mainArgs, baseVars, imported,
                  contingency_circuits_details, outVars, psseVars >>

\* Classify with the else lost: every contingency goes onto
\* circuit_switching, a voltage-control one onto shunt_switching as well.
Classify_NoElse ==
  /\ pc = "loop"
  /\ k <= Len(contingency_circuits_details)
  /\ LET contingency == contingency_circuits_details[k] IN
       /\ circuit_switching' = Append(circuit_switching, contingency.name)
       /\ IF contingency.voltage_control_contingency
            THEN shunt_switching' = Append(shunt_switching, contingency.name)
            ELSE UNCHANGED shunt_switching
  /\ pc' = "setup"
  /\ UNCHANGED << topVars, raised, mainArgs, baseVars, imported,
                  contingency_circuits_details, contingency_convergence, k,
                  outVars, psseVars >>

\* Main.py 128-133: the next contingency goes onto one of the two lists.
Classify ==
  /\ pc = "loop"
  /\ k <= Len(contingency_circuits_details)
  /\ LET contingency == contingency_circuits_details[k] IN
       IF contingency.voltage_control_contingency
         THEN /\ shunt_switching' = Append(shunt_switching, contingency.name)
              /\ UNCHANGED circuit_switching
         ELSE /\ circuit_switching' = Append(circuit_switching, contingency.name)
              /\ UNCHANGED shunt_switching
  /\ pc' = "setup"
  /\ UNCHANGED << topVars, raised, mainArgs, baseVars, imported,
                  contingency_circuits_details, contingency_convergence, k,
                  outVars, psseVars >>

\* Main.py 134-142
SetupContingency ==
  /\ pc = "setup"
  /\ events' = Append(events, << "setup", contingency_circuits_details[k].name >>)
  /\ pc' = "test"
  /\ UNCHANGED << topVars, raised, mainArgs, baseVars, loopVars, outVars,
                  out_of_service, left_out >>

\* Main.py 143-146: the elements are switched out and the case solved;
\* afterwards any of them may still be out of service.
TestContingency ==
  /\ pc = "test"
  /\ \E conv \in BOOLEAN :
       contingency_circuits_details' =
         [contingency_circuits_details EXCEPT
            ![k] = test_contingency(contingency_circuits_details[k], conv)]
  /\ \E left \in SUBSET contingency_circuits_details[k].elements :
       /\ out_of_service' = out_of_service \cup left
       /\ left_out' = left
  /\ events' = Append(events, << "test", contingency_circuits_details[k].name >>)
  /\ pc' = "reload"
  /\ UNCHANGED << topVars, raised, mainArgs, baseVars, imported, circuit_switching,
                  shunt_switching, contingency_convergence, k, outVars >>

\* ReloadCase without the reload: the case is left as the test left it.
ReloadCase_NoReload ==
  /\ pc = "reload"
  /\ events' = Append(events, << "reload", contingency_circuits_details[k].name >>)
  /\ pc' = "record"
  /\ UNCHANGED << topVars, raised, mainArgs, baseVars, loopVars, outVars,
                  out_of_service, left_out >>

\* Main.py 148-150
ReloadCase ==
  /\ pc = "reload"
  /\ out_of_service' = load_data_case
  /\ events' = Append(events, << "reload", contingency_circuits_details[k].name >>)
  /\ pc' = "record"
  /\ UNCHANGED << topVars, raised, mainArgs, baseVars, loopVars, outVars, left_out >>

\* RecordConvergence without line 153: the convergence cell stays empty.
RecordConvergence_MessageOnly ==
  /\ pc = "record"
  /\ LET contingency == contingency_circuits_details[k] IN
       /\ contingency_convergence' =
            SetRow(contingency_convergence, contingency.name,
                   [message |-> Cell(contingency.convergence_message),
                    convergence |-> NaN])
       /\ events' = Append(events, << "record", contingency.name >>)
  /\ k' = k + 1
  /\ pc' = "loop"
  /\ UNCHANGED << topVars, raised, mainArgs, baseVars, imported,
                  contingency_circuits_details, circuit_switching,
                  shunt_switching, outVars, out_of_service, left_out >>

\* Main.py 151-153, and on to the next contingency.
RecordConvergence ==
  /\ pc = "record"
  /\ LET contingency == contingency_circuits_details[k] IN
       /\ contingency_convergence' =
            SetRow(contingency_convergence, contingency.name,
                   [message |-> Cell(contingency.convergence_message),
                    convergence |-> Cell(contingency.convergent)])
       /\ events' = Append(events, << "record", contingency.name >>)
  /\ k' = k + 1
  /\ pc' = "loop"
  /\ UNCHANGED << topVars, raised, mainArgs, baseVars, imported,
                  contingency_circuits_details, circuit_switching,
                  shunt_switching, outVars, out_of_service, left_out >>

\* Main.py 155-177: the loop is over; the voltage step of each list against
\* its limit, all names together, the summary.
CheckCompliance ==
  /\ pc = "loop"
  /\ k > Len(contingency_circuits_details)
  /\ LET df_compliance_cont_step ==
           check_compliance(circuit_switching, cont_step_change_limit)
         df_compliance_reactor_step ==
           check_compliance(shunt_switching, reactor_step_change_limit)
         df_compliance_step_change ==
           Append(df_compliance_cont_step \o df_compliance_reactor_step,
                  [name |-> bc, limit |-> "True"])
         all_cont_names == << bc >> \o circuit_switching \o shunt_switching
     IN contingency_compliance' =
          [convergence |-> contingency_convergence,
           step_change |-> df_compliance_step_change,
           names |-> all_cont_names]
  /\ pc' = "export"
  /\ UNCHANGED << topVars, raised, mainArgs, baseVars, loopVars, exported,
                  returned, psseVars >>

\* results_data without its last entry.
results_data_NoMachineData ==
  << ExcelSheet.voltage_steady, ExcelSheet.voltage_step, ExcelSheet.busbars,
     ExcelSheet.circuit_status, ExcelSheet.circuit_loading,
     ExcelSheet.tx2_status, ExcelSheet.tx2_loading, ExcelSheet.tx3,
     ExcelSheet.tx3_wind_status, ExcelSheet.tx3_wind_loading,
     ExcelSheet.fixed_shunts, ExcelSheet.switched_shunts >>

\* Main.py 179-194: the keys of results_data, in order.
results_data ==
  << ExcelSheet.voltage_steady, ExcelSheet.voltage_step, ExcelSheet.busbars,
     ExcelSheet.circuit_status, ExcelSheet.circuit_loading,
     ExcelSheet.tx2_status, ExcelSheet.tx2_loading, ExcelSheet.tx3,
     ExcelSheet.tx3_wind_status, ExcelSheet.tx3_wind_loading,
     ExcelSheet.fixed_shunts, ExcelSheet.switched_shunts,
     ExcelSheet.machine_data >>

\* Main.py 179-198
ExportResults ==
  /\ pc = "export"
  /\ exported' = Append(exported,
                   [pth_workbook |-> target_workbook,
                    results |-> results_data,
                    convergence |-> contingency_compliance])
  /\ pc' = "return"
  /\ UNCHANGED << topVars, raised, mainArgs, baseVars, loopVars,
                  contingency_compliance, returned, psseVars >>

\* Main.py 200
Return ==
  /\ pc = "return"
  /\ returned' = target_workbook
  /\ pc' = "returned"
  /\ UNCHANGED << topVars, raised, mainArgs, baseVars, loopVars,
                  contingency_compliance, exported, psseVars >>

Next ==
  \/ ForTypeError
  \/ ForBody
  \/ StudyCompleted
  \/ LogCompleted
  \/ ExceptValueError
  \/ LoadCase
  \/ RunLoadFlow
  \/ BaseCheck
  \/ ImportContingencies
  \/ InitConvergence
  \/ Classify
  \/ SetupContingency
  \/ TestContingency
  \/ ReloadCase
  \/ RecordConvergence
  \/ CheckCompliance
  \/ ExportResults
  \/ Return

Spec == Init /\ [][Next]_vars

\* The script is one sequential thread: a statement that can run does.
FairSpec == Spec /\ WF_vars(Next)

(* ------------------------------ properties ----------------------------- *)

IslandedError == ValueError("Check PSSE SAV Case - Islanded busbars")
NonConvergentError == ValueError("Check PSSE SAV Case - Non-Convergent")

ErrorLogged(sav) ==
  LogEntry("error", "Contingency analysis for the SAV case could not be completed",
           sav, "")

Count(seq, x) == Cardinality({j \in DOMAIN seq : seq[j] = x})

IsPrefix(s, t) == Len(s) <= Len(t) /\ s = SubSeq(t, 1, Len(s))

\* The names of a list in order, each at its first occurrence only.
RECURSIVE FirstOccurrences(_, _)
FirstOccurrences(seen, names) ==
  IF names = << >> THEN << >>
  ELSE IF Head(names) \in seen
         THEN FirstOccurrences(seen, Tail(names))
         ELSE << Head(names) >> \o FirstOccurrences(seen \cup {Head(names)}, Tail(names))

\* The steps of the contingencies named, one contingency after another.
RECURSIVE StepsInOrder(_)
StepsInOrder(names) ==
  IF names = << >> THEN << >>
  ELSE << << "setup", Head(names) >>, << "test", Head(names) >>,
          << "reload", Head(names) >>, << "record", Head(names) >> >>
       \o StepsInOrder(Tail(names))

\* main() is past the loop of line 128 in its current or last run.
LoopDone == pc \in {"export", "return", "returned"} \/ returned # ""

\* The calls of main() the first n items of the selector list stand for.
SelectedCalls(n) ==
  [j \in 1..n |->
     [cont_workbook |-> pth_Contingencies,
      psse_sav_case |-> PyIndex(pth_EirGrid_SAV, selector.list[j]),
      target_workbook |-> PyIndex(pth_results, selector.list[j])]]

\* C1: a base case that is non-convergent or has an islanded busbar makes
\* main() raise a ValueError, and the top-level loop catches it: it logs an
\* error for that SAV case and goes on with the loop.
C1_BaseCaseFailureRaisedAndCaught ==
  [][ /\ (pc = "base_check" /\ (~load_flow_success \/ islanded_busbars # {}))
         => (pc' = "raise" /\ raised'.type = "ValueError")
      /\ (pc = "raise")
         => (/\ pc' = "for"
             /\ log' = Append(log, ErrorLogged(psse_sav_case))
             /\ pos' = pos) ]_vars

C1_Witness ==
  /\ pc = "for"
  /\ raised = NonConvergentError
  /\ log[Len(log)] = ErrorLogged(psse_sav_case)

\* C2: once the base case has passed, no contingency outcome aborts the
\* run: nothing is raised, every contingency already passed by the loop has
\* been tested and has its row, holding the message and the flag its test
\* produced, and past the loop that is every contingency of the workbook.
C2_NonConvergenceRecordedNotRaised ==
  /\ imported => (raised = NoException /\ pc \notin {"raise", "crashed"})
  /\ (imported /\ pc # "frame") =>
       \A j \in 1..Len(contingency_circuits_details) :
         j < k =>
           LET c == contingency_circuits_details[j] IN
             /\ Count(events, << "test", c.name >>) >= 1
             /\ c.name \in DOMAIN contingency_convergence
             /\ contingency_convergence[c.name] =
                  [message |-> Cell(c.convergence_message),
                   convergence |-> Cell(c.convergent)]
             /\ c.convergent = (c.convergence_message = convergent_message)
  /\ LoopDone =>
       /\ k = Len(contingency_circuits_details) + 1
       /\ \A j \in 1..Len(workbook) :
            \E m \in 1..Len(contingency_circuits_details) :
              contingency_circuits_details[m].name = workbook[j]
  /\ (pc = "done" /\ imported) => LoopDone

C2_Witness ==
  /\ pc = "returned"
  /\ Len(contingency_circuits_details) = 2
  /\ ~contingency_circuits_details[1].convergent
  /\ contingency_convergence[contingency_circuits_details[1].name].convergence
       = Cell(FALSE)
  /\ contingency_convergence[contingency_circuits_details[2].name].convergence
       = Cell(TRUE)

\* C3: the contingencies are handled one at a time in workbook order: the
\* steps taken so far are an initial part of setup, test, reload, record of
\* the first name, then of the second, and so on, each name once; past the
\* loop they are all of it.
C3_OneContingencyAtATime ==
  /\ IsPrefix(events, StepsInOrder(FirstOccurrences({}, workbook)))
  /\ LoopDone => events = StepsInOrder(FirstOccurrences({}, workbook))
  /\ \A n \in ContingencyNames : Count(events, << "test", n >>) <= 1

C3_Witness ==
  /\ pc = "export"
  /\ Len(workbook) = 2
  /\ workbook[1] # workbook[2]
  /\ Len(events) = 8

\* C4: when a contingency is set up and when it is tested, nothing is out
\* of service in the loaded case: what an earlier test left switched out
\* has been undone by the reload.
C4_ContingencyAppliedToBaseCase ==
  pc \in {"setup", "test"} => out_of_service = {}

C4_Witness ==
  /\ pc = "test"
  /\ k = 2
  /\ left_out # {}
  /\ out_of_service = {}

\* C5: a run of main() exports at most once, only past the loop with every
\* contingency tested; the export goes to the target workbook, holds the
\* thirteen result categories once each and the summary, whose convergence
\* table has the base case and every contingency; main() then returns the
\* target workbook path, with exactly one export made.
C5_ExportOnceAfterAllTested ==
  /\ Len(exported) <= 1
  /\ Len(exported) = 1 =>
       /\ k = Len(contingency_circuits_details) + 1
       /\ events = StepsInOrder(FirstOccurrences({}, workbook))
       /\ exported[1].pth_workbook = target_workbook
       /\ Len(exported[1].results) = 13
       /\ {exported[1].results[j] : j \in 1..13} =
            {ExcelSheet.voltage_steady, ExcelSheet.voltage_step, ExcelSheet.busbars,
             ExcelSheet.circuit_status, ExcelSheet.circuit_loading,
             ExcelSheet.tx2_status, ExcelSheet.tx2_loading, ExcelSheet.tx3,
             ExcelSheet.tx3_wind_status, ExcelSheet.tx3_wind_loading,
             ExcelSheet.fixed_shunts, ExcelSheet.switched_shunts,
             ExcelSheet.machine_data}
       /\ \A n \in {ExcelSheet[f] : f \in DOMAIN ExcelSheet} :
            Count(exported[1].results, n) = 1
       /\ exported[1].convergence = contingency_compliance
       /\ DOMAIN exported[1].convergence.convergence =
            {bc} \cup {workbook[j] : j \in 1..Len(workbook)}
  /\ pc \in {"return", "returned"} => Len(exported) = 1
  /\ pc = "returned" => returned = target_workbook
  /\ returned # "" => (returned = target_workbook /\ Len(exported) = 1)
  /\ (pc = "done" /\ imported) => returned = target_workbook

C5_Witness ==
  /\ pc = "returned"
  /\ returned = target_workbook
  /\ Len(exported) = 1
  /\ Len(contingency_circuits_details) = 2

\* C6: the calls of main() are those of the selector items taken so far,
\* item i pairing SAV path i with results path i, whether or not an earlier
\* call raised; and once a call has raised ValueError the script still comes
\* to log 'Study completed', every selected case having been called.
C6_AbortedCaseAbortsOnlyItself ==
  /\ [](selector.type = "list" =>
          /\ pos <= Len(selector.list)
          /\ calls = SelectedCalls(pos)
          /\ (pc = "done" => pos = Len(selector.list)))
  /\ (raised.type = "ValueError") ~>
       (/\ pc = "done"
        /\ log[Len(log)] = LogEntry("info", "Study completed", "", "")
        /\ calls = SelectedCalls(Len(selector.list)))

C6_Witness ==
  /\ pc = "done"
  /\ \E j \in 1..Len(log) : \E m \in 1..Len(log) :
       /\ j < m
       /\ log[j].level = "error"
       /\ log[m].msg = "SAV case completed"
       /\ log[m].sav # log[j].sav

\* C7: with selector set to -1 every SAV case is processed with its results
\* file, in list order; with a list, the cases at the listed positions are.
C7_SelectorSemantics ==
  pc \in {"done", "crashed"} =>
    IF selector = SelectorInt(-1)
      THEN calls = [j \in 1..Len(pth_EirGrid_SAV) |->
                      [cont_workbook |-> pth_Contingencies,
                       psse_sav_case |-> pth_EirGrid_SAV[j],
                       target_workbook |-> pth_results[j]]]
      ELSE calls = SelectedCalls(Len(selector.list))

\* C8: when main() has aborted on the base-case check nothing after the
\* check has happened in that run: no workbook import, no contingency
\* object, list or table, no setup, test or reload, no export, no return.
C8_AbortLeavesNothingDone ==
  raised.type = "ValueError" =>
    /\ ~imported
    /\ contingency_circuits_details = << >>
    /\ contingency_convergence = EmptyFrame
    /\ events = << >>
    /\ out_of_service = {}
    /\ contingency_compliance = NoCompliance
    /\ exported = << >>
    /\ returned = ""

C8_Witness ==
  /\ pc = "raise"
  /\ raised.type = "ValueError"
  /\ \E j \in 1..Len(log) : log[j].msg = "SAV case completed"

\* C9: right after the base-case check, the error is the islanding one
\* whenever a busbar is islanded, the non-convergence one only when the load
\* flow failed with no busbar islanded, and the run goes on only when the
\* load flow succeeded with no busbar islanded.
C9_IslandingReportedFirst ==
  pc \in {"raise", "import"} =>
    /\ islanded_busbars # {} => (pc = "raise" /\ raised = IslandedError)
    /\ (islanded_busbars = {} /\ ~load_flow_success)
         => (pc = "raise" /\ raised = NonConvergentError)
    /\ raised = NonConvergentError => (~load_flow_success /\ islanded_busbars = {})
    /\ pc = "import" <=> (load_flow_success /\ islanded_busbars = {})
    /\ pc = "import" => raised = NoException

C9_Witness ==
  /\ pc = "raise"
  /\ ~load_flow_success
  /\ islanded_busbars # {}
  /\ raised = IslandedError

\* C10: every contingency the loop has taken is on exactly one of the two
\* lists, once, on shunt_switching exactly when its voltage-control flag is
\* set; once compliance is checked its voltage step has exactly one row,
\* against the reactor limit if on shunt_switching and the contingency limit
\* otherwise, and all_cont_names holds the base case and every contingency
\* name once each.
C10_ExactlyOneSwitchingList ==
  /\ (imported /\ pc # "frame") =>
       \A j \in 1..Len(contingency_circuits_details) :
         (j < k \/ (j = k /\ pc \in {"setup", "test", "reload", "record"})) =>
           LET c == contingency_circuits_details[j] IN
             /\ Count(circuit_switching, c.name) + Count(shunt_switching, c.name) = 1
             /\ Count(shunt_switching, c.name) = 1 <=> c.voltage_control_contingency
  /\ contingency_compliance # NoCompliance =>
       /\ \A j \in 1..Len(workbook) :
            LET rows == {m \in DOMAIN contingency_compliance.step_change :
                           contingency_compliance.step_change[m].name = workbook[j]}
            IN /\ Cardinality(rows) = 1
               /\ \A m \in rows :
                    contingency_compliance.step_change[m].limit =
                      IF Count(shunt_switching, workbook[j]) = 1
                        THEN reactor_step_change_limit
                        ELSE cont_step_change_limit
               /\ Count(contingency_compliance.names, workbook[j]) = 1
       /\ Count(contingency_compliance.names, bc) = 1
       /\ Len(contingency_compliance.names) =
            1 + Cardinality({workbook[j] : j \in 1..Len(workbook)})

C10_Witness ==
  /\ pc = "export"
  /\ circuit_switching # << >>
  /\ shunt_switching # << >>
  /\ Len(contingency_compliance.names) = 3

=============================================================================
